---- MODULE Spec2Model ----
(***************************************************************************)
(* The quiz service of src/app.js: POST /authenticate, POST /game-runs,    *)
(* PUT /game-runs/:runId/responses and GET /game-runs/:runId/results over  *)
(* the "users", "questions" and "game-runs" collections.                   *)
(*                                                                         *)
(* A route's middleware chain (passport.authenticate("jwt"), then          *)
(* gameOwnerMiddleware, then the handler) contains no await and calls      *)
(* read/write synchronously, so one request is one step of the single      *)
(* JavaScript thread.  The BasicStrategy awaits bcrypt.compare: an         *)
(* /authenticate request takes two steps and others run in between.        *)
(* GET /questions and GET /questions/:questionId only read the catalog and *)
(* are left out.                                                           *)
(*                                                                         *)
(* Spec       the game-run routes, two users, from the empty collection;   *)
(* SpecSubmit the same routes for one user and one run, with every value   *)
(*            a submitted mapping can hold;                                *)
(* SpecStored Spec over a collection that an earlier process left behind;  *)
(* SpecAuth   the /authenticate route, which shares no state with the      *)
(*            others (it reads the users only).                            *)
(***************************************************************************)
EXTENDS Integers, Sequences, FiniteSets, TLC

VARIABLES
    gameRuns,   \* the "game-runs" collection: a sequence of run records
    uuids,      \* how many identifiers uuidv4() has handed out
    pending,    \* /authenticate requests suspended at `await bcrypt.compare`
    last        \* the exchange completed by the latest step: request and response

vars == <<gameRuns, uuids, pending, last>>

-----------------------------------------------------------------------------
(* Bounds of the model. *)

\* Runs the collection may hold (POST /game-runs is cut off beyond it).
MaxRuns == 2
\* /authenticate requests that may be suspended at bcrypt.compare at once.
MaxPending == 2

-----------------------------------------------------------------------------
(* Constants of the program. *)

JWT_SECRET == "super-secret"

\* Joi.number().integer().min(0).max(3)
MinAnswer == 0
MaxAnswer == 3

-----------------------------------------------------------------------------
(* JSON values of a submitted mapping.  A number with a fractional part is *)
(* <<"frac", n>> (n + 0.5); a JSON string of digits is <<"str", n>>.       *)

IntV(n) == <<"int", n>>
FracV(n) == <<"frac", n>>
StrV(n) == <<"str", n>>

\* The empty object {}.
EmptyMap == [k \in {} |-> IntV(0)]

\* All objects with keys among `keys` and values among `values`.
Mappings(keys, values) == UNION {[d -> values] : d \in SUBSET keys}

-----------------------------------------------------------------------------
(* The seed collections.  data/users.json and data/questions.json are not  *)
(* part of the sources; the tests name the users Iris and Max, both with   *)
(* password "123", and use at least two questions.                         *)

\* bcrypt: compare(p, h) is true exactly when h is a hash of p.
BcryptHash(plain) == <<"bcrypt", plain>>

BcryptCompare(plain, hash) == hash = BcryptHash(plain)

users ==
    << [userName |-> "Iris", password |-> BcryptHash("123")],
       [userName |-> "Max", password |-> BcryptHash("123")] >>

\* read("questions") at module load: id and correctAnswer of each question.
questions ==
    << [id |-> "q1", correctAnswer |-> 3],
       [id |-> "q2", correctAnswer |-> 1] >>

questionIds == {questions[i].id : i \in 1..Len(questions)}

-----------------------------------------------------------------------------
(* tools/json-files.js is not among the sources.  read(name) gives the     *)
(* collection as last written and write(name, value) has replaced it when  *)
(* it returns: the routes call both without await, and the tests read back *)
(* what a request wrote as soon as it is answered.                         *)

read(collection) == collection

write(value) == value

-----------------------------------------------------------------------------
(* Array.prototype.find on a collection: the first element that matches.   *)

\* The index of the first element for which the test (tests[i], the test's
\* result on the i-th element) holds, 0 when there is none.
FindIndex(tests) ==
    IF \E i \in 1..Len(tests) : tests[i]
    THEN CHOOSE i \in 1..Len(tests) :
            /\ tests[i]
            /\ \A j \in 1..(i - 1) : ~tests[j]
    ELSE 0

HasRun(runs, runId) == \E i \in 1..Len(runs) : runs[i].id = runId

FindRun(runs, runId) ==
    runs[FindIndex([i \in 1..Len(runs) |-> runs[i].id = runId])]

HasUser(userName) == \E i \in 1..Len(users) : users[i].userName = userName

FindUser(userName) ==
    users[FindIndex([i \in 1..Len(users) |-> users[i].userName = userName])]

-----------------------------------------------------------------------------
(* Tokens.  jwt.sign puts the userName in the payload and in the subject   *)
(* and signs with the key (the iat claim it adds is read by nothing); the  *)
(* JwtStrategy accepts a bearer token whose signature was made with        *)
(* JWT_SECRET and keeps only payload.userName.                             *)

JwtSign(payload, key, subject) ==
    [payload |-> [userName |-> payload.userName, sub |-> subject], key |-> key]

NoAuthorization == [scheme |-> "none"]
Bearer(token) == [scheme |-> "Bearer", token |-> token]
Basic(name, plain) ==
    [userName |-> name, password |-> plain, scheme |-> "Basic"]

NoUser == [authenticated |-> FALSE]

JwtStrategy(authorization) ==
    IF authorization.scheme = "Bearer" /\ authorization.token.key = JWT_SECRET
    THEN [userName |-> authorization.token.payload.userName, authenticated |-> TRUE]
    ELSE NoUser

-----------------------------------------------------------------------------
(* Responses. *)

NoBody == [kind |-> "none"]

Response(status, body) == [status |-> status, body |-> body]

SendStatus(status) == Response(status, NoBody)

NoExchange == [req |-> [op |-> "none"], res |-> SendStatus(0)]

-----------------------------------------------------------------------------
(* putGameRunResponsesSchema: Joi.object().pattern(key schema, value       *)
(* schema).min(1).  A key that no pattern matches is an unknown key, which *)
(* Joi rejects; .strict() turns off the conversion of strings to numbers.  *)

\* Mutant: the key schema accepts any string.
KeySchemaAnyString(key) == key = key

\* Joi.string().valid(...questionIds)
KeySchema(key) == key \in questionIds

\* Mutant: the value schema without .max(3).
ValueSchemaNoMax(value) ==
    IF value[1] \notin {"int", "frac"} THEN "number.base"
    ELSE IF value[1] # "int" THEN "number.integer"
    ELSE IF value[2] < MinAnswer THEN "number.min"
    ELSE "none"

\* Joi.number().integer().min(0).max(3).required().strict()
ValueSchema(value) ==
    IF value[1] \notin {"int", "frac"} THEN "number.base"
    ELSE IF value[1] # "int" THEN "number.integer"
    ELSE IF value[2] < MinAnswer THEN "number.min"
    ELSE IF value[2] > MaxAnswer THEN "number.max"
    ELSE "none"

EntryError(key, value) ==
    IF ~KeySchema(key) THEN "object.unknown" ELSE ValueSchema(value)

\* .min(1): the number of keys the object must have at least.
MinKeys == 1

\* Mutant: the schema without .min(1).
SchemaValidateNoMin(body) ==
    LET failing == {k \in DOMAIN body : EntryError(k, body[k]) # "none"}
        error ==
            IF failing # {}
            THEN LET k == CHOOSE k \in failing : TRUE IN EntryError(k, body[k])
            ELSE "none"
    IN  [value |-> body, error |-> error]

\* validate(req.body): {error, value}.  The entries are checked first (Joi
\* stops at the first one that fails, in the key order of the object, which
\* a function does not keep: any failing entry stands for it), then .min(1).
SchemaValidate(body) ==
    LET failing == {k \in DOMAIN body : EntryError(k, body[k]) # "none"}
        error ==
            IF failing # {}
            THEN LET k == CHOOSE k \in failing : TRUE IN EntryError(k, body[k])
            ELSE IF Cardinality(DOMAIN body) < MinKeys THEN "object.min"
            ELSE "none"
    IN  [value |-> body, error |-> error]

-----------------------------------------------------------------------------
(* gameOwnerMiddleware: the status it sends, or PassOn when it calls       *)
(* next().                                                                 *)

PassOn == 0

\* Mutant: the middleware passes any authenticated user on to a run that
\* exists.
gameOwnerMiddlewareAnyUser(user, runId, runs) ==
    IF ~user.authenticated THEN 401
    ELSE IF ~HasRun(runs, runId) THEN 404
    ELSE PassOn

gameOwnerMiddleware(user, runId, runs) ==
    IF ~user.authenticated THEN 401
    ELSE IF ~HasRun(runs, runId) THEN 404
    ELSE IF FindRun(runs, runId).userName = user.userName THEN PassOn
    ELSE 403

-----------------------------------------------------------------------------
(* POST /game-runs: the collection written, and the response.              *)

NewRun(runId, userName, now) ==
    [userName |-> userName, id |-> runId, createdAt |-> now,
     responses |-> EmptyMap]

\* Mutant: the new run is written without the runs read.
AppendRunAlone(runs, run) == <<run>>

\* write("game-runs", [...read("game-runs"), run])
AppendRun(runs, run) == Append(runs, run)

-----------------------------------------------------------------------------
(* PUT /game-runs/:runId/responses, after the middleware passed it on.     *)

\* Mutant: the submitted mapping is merged into the stored one.
SetResponsesMerged(runs, runId, value) ==
    LET found == FindIndex([i \in 1..Len(runs) |-> runs[i].id = runId])
        old == runs[found].responses
    IN  [runs EXCEPT ![found].responses =
            [k \in DOMAIN old \cup DOMAIN value |->
                IF k \in DOMAIN value THEN value[k] ELSE old[k]]]

\* gameRun.responses = value: gameRun is the element of the array read.
SetResponses(runs, runId, value) ==
    LET found == FindIndex([i \in 1..Len(runs) |-> runs[i].id = runId])
    IN  [runs EXCEPT ![found].responses = value]

\* Mutant: the callback's parameter has another name, so every element is
\* mapped to the handler's gameRun.
WriteBackHandlersRun(runs, runId) ==
    [i \in 1..Len(runs) |->
        IF runs[i].id = runId THEN FindRun(runs, runId) ELSE FindRun(runs, runId)]

\* gameRuns.map((gameRun) => gameRun.id === runId ? gameRun : gameRun): the
\* callback's parameter hides the handler's gameRun, so both branches give
\* the element itself.
WriteBack(runs, runId) ==
    [i \in 1..Len(runs) |-> IF runs[i].id = runId THEN runs[i] ELSE runs[i]]

\* The handler: what it writes (the collection as it is when nothing is
\* written) and what it sends.
PutHandler(runId, body, runs) ==
    IF ~HasRun(runs, runId)
    THEN [gameRuns |-> runs, res |-> SendStatus(404)]
    ELSE LET validated == SchemaValidate(body)
         IN  IF validated.error # "none"
             THEN [gameRuns |-> runs,
                   res |-> Response(400, [kind |-> "error", error |-> validated.error])]
             ELSE [gameRuns |->
                        write(WriteBack(SetResponses(runs, runId, validated.value),
                                        runId)),
                   res |-> SendStatus(200)]

-----------------------------------------------------------------------------
(* GET /game-runs/:runId/results, after the middleware passed it on.       *)

HasQuestion(questionId) ==
    \E i \in 1..Len(questions) : questions[i].id = questionId

FindQuestion(questionId) ==
    questions[FindIndex([i \in 1..Len(questions) |-> questions[i].id = questionId])]

\* Mutant: the answer is compared with the first question's.
IsCorrectFirstQuestion(questionId, answerIndex) ==
    IntV(questions[1].correctAnswer) = answerIndex

\* question.correctAnswer === answerIndex
IsCorrect(questionId, answerIndex) ==
    IntV(FindQuestion(questionId).correctAnswer) = answerIndex

\* questions.find gives undefined for an id the catalog lacks, and reading
\* correctAnswer of undefined throws a TypeError, which express answers 500.
GetHandler(runId, runs) ==
    IF ~HasRun(runs, runId) THEN SendStatus(404)
    ELSE LET gameRun == FindRun(runs, runId)
         IN  IF \E q \in DOMAIN gameRun.responses : ~HasQuestion(q)
             THEN SendStatus(500)
             ELSE Response(200,
                    [userName |-> gameRun.userName,
                     id |-> gameRun.id,
                     kind |-> "results",
                     createdAt |-> gameRun.createdAt,
                     responses |->
                        [q \in DOMAIN gameRun.responses |->
                            IsCorrect(q, gameRun.responses[q])]])

-----------------------------------------------------------------------------
(* Requests. *)

CreateRequest(authorization) ==
    [authorization |-> authorization, op |-> "POST /game-runs"]

PutRequest(authorization, runId, body) ==
    [runId |-> runId, authorization |-> authorization, body |-> body,
     op |-> "PUT /game-runs/:runId/responses"]

GetRequest(authorization, runId) ==
    [runId |-> runId, authorization |-> authorization,
     op |-> "GET /game-runs/:runId/results"]

AuthenticateRequest(authorization) ==
    [authorization |-> authorization, op |-> "POST /authenticate"]

\* The token POST /authenticate issues for a user.
TokenOf(userName) == JwtSign([userName |-> userName], JWT_SECRET, userName)

\* A token signed with another key.
ForgedToken(userName) == JwtSign([userName |-> userName], "other-secret", userName)

userNames == {users[i].userName : i \in 1..Len(users)}

\* Authorization headers a client sends to the bearer-token routes.
Authorizations ==
    {NoAuthorization, Bearer(ForgedToken("Iris"))}
        \cup {Bearer(TokenOf(u)) : u \in userNames}

\* Run ids in a path: 0 is an id uuidv4() never gave out (the tests' "oops").
RunIdParams == 0..MaxRuns

\* Keys of a submitted mapping: every question and a key that is no question.
Keys == questionIds \cup {"oops"}

\* The mappings submitted under Spec, where runs and users vary: every set
\* of questions answered (none, too), and an answer to what is no question.
\* SpecSubmit varies the values and mixes the keys.
Bodies ==
    Mappings(questionIds, {IntV(MaxAnswer)})
        \cup Mappings(Keys \ questionIds, {IntV(MaxAnswer)})

-----------------------------------------------------------------------------
(* The routes: one step each.                                              *)

Init ==
    /\ gameRuns = <<>>
    /\ uuids = 0
    /\ pending = {}
    /\ last = NoExchange

\* uuidv4(): an identifier never given out before.
uuidv4 == uuids + 1

\* new Date().getTime(): the clock has moved on since the run before.
Epoch == 1000

getTime == Epoch + uuids

\* app.post("/game-runs", passport.authenticate("jwt"), handler)
PostGameRuns(req) ==
    LET user == JwtStrategy(req.authorization)
    IN  /\ UNCHANGED pending
        /\ IF ~user.authenticated
           THEN /\ last' = [req |-> req, res |-> SendStatus(401)]
                /\ UNCHANGED <<gameRuns, uuids>>
           ELSE /\ Len(gameRuns) < MaxRuns
                /\ uuids' = uuids + 1
                /\ gameRuns' = write(AppendRun(read(gameRuns),
                                                NewRun(uuidv4, user.userName, getTime)))
                /\ last' = [req |-> req,
                            res |-> Response(200, [runId |-> uuidv4, kind |-> "run"])]

\* app.put("/game-runs/:runId/responses", passport.authenticate("jwt"),
\*         gameOwnerMiddleware, handler)
PutGameRunResponses(req) ==
    LET user == JwtStrategy(req.authorization)
        sent == IF user.authenticated
                THEN gameOwnerMiddleware(user, req.runId, read(gameRuns))
                ELSE 401
        out == PutHandler(req.runId, req.body, read(gameRuns))
    IN  /\ UNCHANGED <<uuids, pending>>
        /\ IF sent # PassOn
           THEN /\ last' = [req |-> req, res |-> SendStatus(sent)]
                /\ UNCHANGED gameRuns
           ELSE /\ gameRuns' = out.gameRuns
                /\ last' = [req |-> req, res |-> out.res]

\* app.get("/game-runs/:runId/results", passport.authenticate("jwt"),
\*         gameOwnerMiddleware, handler)
GetGameRunResults(req) ==
    LET user == JwtStrategy(req.authorization)
        sent == IF user.authenticated
                THEN gameOwnerMiddleware(user, req.runId, read(gameRuns))
                ELSE 401
    IN  /\ UNCHANGED <<gameRuns, uuids, pending>>
        /\ last' = [req |-> req,
                    res |-> IF sent # PassOn THEN SendStatus(sent)
                            ELSE GetHandler(req.runId, read(gameRuns))]

CreateRun ==
    \E a \in Authorizations : PostGameRuns(CreateRequest(a))

SubmitResponses ==
    \E a \in Authorizations, id \in RunIdParams, b \in Bodies :
        PutGameRunResponses(PutRequest(a, id, b))

QueryResults ==
    \E a \in Authorizations, id \in RunIdParams :
        GetGameRunResults(GetRequest(a, id))

Next == CreateRun \/ SubmitResponses \/ QueryResults

Spec == Init /\ [][Next]_vars

-----------------------------------------------------------------------------
(* SpecSubmit: one user, one run, and every mapping over the keys with the *)
(* values a JSON number or string can take around the schema's limits.     *)

\* Values of a submitted mapping: the integers from MinAnswer - 1 to
\* MaxAnswer + 1, a number that is no integer, and a string of a digit.
Values ==
    {IntV(n) : n \in (MinAnswer - 1)..(MaxAnswer + 1)}
        \cup {FracV(MinAnswer + 1), StrV(MaxAnswer)}

\* A key that is no question is rejected whatever its value: one value is
\* enough for it.
SubmitBodies ==
    {b \in Mappings(Keys, Values) :
        \A k \in DOMAIN b : k \notin questionIds => b[k] = IntV(MinAnswer)}

Owner == Bearer(TokenOf("Iris"))

SubmitCreateRun ==
    /\ gameRuns = <<>>
    /\ PostGameRuns(CreateRequest(Owner))

SubmitSubmitResponses ==
    \E b \in SubmitBodies : PutGameRunResponses(PutRequest(Owner, 1, b))

SubmitQueryResults == GetGameRunResults(GetRequest(Owner, 1))

NextSubmit == SubmitCreateRun \/ SubmitSubmitResponses \/ SubmitQueryResults

SpecSubmit == Init /\ [][NextSubmit]_vars

-----------------------------------------------------------------------------
(* SpecStored: the service started over a "game-runs" file that an earlier *)
(* process left behind.  Its runs were validated against the catalog of    *)
(* that process, which may have held a question the catalog of this one    *)
(* does not ("oops").                                                      *)

StoredRuns ==
    {[NewRun(1, u, Epoch) EXCEPT !.responses = b] :
        u \in userNames, b \in Bodies}

InitStored ==
    /\ gameRuns \in {<<>>} \cup {<<run>> : run \in StoredRuns}
    /\ uuids = Len(gameRuns)
    /\ pending = {}
    /\ last = NoExchange

SpecStored == InitStored /\ [][Next]_vars

-----------------------------------------------------------------------------
(* POST /authenticate: passport.authenticate("basic") then the handler.    *)
(* The BasicStrategy's verify function reads the users, then awaits        *)
(* bcrypt.compare; the rest runs when the comparison is done.              *)

\* The verify function up to the await: the user found, or done(null, false),
\* which passport answers 401.  A request without Basic credentials is
\* answered 401 before the verify function is called.
AuthenticateLookup(req) ==
    /\ UNCHANGED <<gameRuns, uuids>>
    /\ IF req.authorization.scheme # "Basic"
       THEN /\ last' = [req |-> req, res |-> SendStatus(401)]
            /\ UNCHANGED pending
       ELSE IF ~HasUser(req.authorization.userName)
       THEN /\ last' = [req |-> req, res |-> SendStatus(401)]
            /\ UNCHANGED pending
       ELSE /\ Cardinality(pending) < MaxPending
            /\ pending' = pending \cup
                    {[req |-> req, user |-> FindUser(req.authorization.userName)]}
            /\ UNCHANGED last

\* Mutant: bcrypt.compare is not awaited, and the promise it returns counts
\* as true.
AuthenticateCompareNotAwaited(p) ==
    /\ UNCHANGED <<gameRuns, uuids>>
    /\ pending' = pending \ {p}
    /\ last' =
        [req |-> p.req,
         res |-> Response(200,
                    [token |-> JwtSign([userName |-> p.user.userName],
                                       JWT_SECRET, p.user.userName),
                     kind |-> "token"])]

\* After the await: done(null, false) or done(null, user), and then the
\* handler signs the token for req.user.
AuthenticateCompare(p) ==
    /\ UNCHANGED <<gameRuns, uuids>>
    /\ pending' = pending \ {p}
    /\ last' =
        [req |-> p.req,
         res |-> IF ~BcryptCompare(p.req.authorization.password, p.user.password)
                 THEN SendStatus(401)
                 ELSE Response(200,
                        [token |-> JwtSign([userName |-> p.user.userName],
                                           JWT_SECRET, p.user.userName),
                         kind |-> "token"])]

\* Credentials a client sends: the users, a name that differs from a user's
\* in case only, and a name that is no user; the password and two others.
Credentials ==
    {NoAuthorization} \cup
    {Basic(u, p) : u \in userNames \cup {"iris", "Eve"},
                   p \in {"123", "1233", "321"}}

Authenticate ==
    \E a \in Credentials : AuthenticateLookup(AuthenticateRequest(a))

AuthenticateDone == \E p \in pending : AuthenticateCompare(p)

NextAuth == Authenticate \/ AuthenticateDone

SpecAuth == Init /\ [][NextAuth]_vars

-----------------------------------------------------------------------------
(* What the claims speak of, stated apart from the routes' definitions.    *)

IsCreate(x) == x.req.op = "POST /game-runs"
IsSubmit(x) == x.req.op = "PUT /game-runs/:runId/responses"
IsResults(x) == x.req.op = "GET /game-runs/:runId/results"
IsAuthenticate(x) == x.req.op = "POST /authenticate"

\* A bearer token the service issued to one of its users.
HasValidToken(x) ==
    \E u \in userNames : x.req.authorization = Bearer(TokenOf(u))

\* The identity such a token carries.
Identity(x) == x.req.authorization.token.payload.userName

RunExists(runs, runId) == \E i \in DOMAIN runs : runs[i].id = runId

RunWithId(runs, runId) == runs[CHOOSE i \in DOMAIN runs : runs[i].id = runId]

\* The exchange is a request of the owner of an existing run of `runs`.
ByOwner(x, runs) ==
    /\ HasValidToken(x)
    /\ RunExists(runs, x.req.runId)
    /\ RunWithId(runs, x.req.runId).userName = Identity(x)

AnswerIndexes == {IntV(n) : n \in 0..3}

\* Some key is no question id, or some value is no integer in 0..3.
HasBadEntry(body) ==
    \E k \in DOMAIN body : k \notin questionIds \/ body[k] \notin AnswerIndexes

CorrectAnswerOf(q) ==
    questions[CHOOSE i \in DOMAIN questions : questions[i].id = q].correctAnswer

-----------------------------------------------------------------------------
\* C1: on PUT responses and GET results alike, a request without a valid
\* bearer token is answered 401 whether or not the run exists; with a valid
\* token, 404 when no run has the id; with a run of another user, 403; only
\* the owner's request reaches the operation (and is answered by it).
C1_AccessOrder ==
    [][ (IsSubmit(last') \/ IsResults(last')) =>
          LET status == last'.res.status
              exists == RunExists(gameRuns, last'.req.runId)
          IN  /\ ~HasValidToken(last') => status = 401
              /\ HasValidToken(last') /\ ~exists => status = 404
              /\ HasValidToken(last') /\ exists /\ ~ByOwner(last', gameRuns)
                    => status = 403
              /\ ByOwner(last', gameRuns) => status \notin {401, 403, 404}
      ]_vars

\* A second user's token was rejected with 403 on the results of a run.
C1_Witness ==
    /\ IsResults(last)
    /\ HasValidToken(last)
    /\ RunExists(gameRuns, last.req.runId)
    /\ RunWithId(gameRuns, last.req.runId).userName # Identity(last)
    /\ last.res.status = 403

\* C2: POST /game-runs with a valid token is answered 200 and appends exactly
\* one run: its id is the runId returned and no stored run had it, its
\* userName is the token's identity, its responses are the empty map, and
\* the runs stored before are still there, unchanged.
C2_CreateAppends ==
    [][ (IsCreate(last') /\ HasValidToken(last')) =>
          LET n == Len(gameRuns)
              new == gameRuns'[n + 1]
          IN  /\ last'.res.status = 200
              /\ Len(gameRuns') = n + 1
              /\ \A i \in 1..n : gameRuns'[i] = gameRuns[i]
              /\ new.id = last'.res.body.runId
              /\ \A i \in 1..n : gameRuns[i].id # new.id
              /\ new.userName = Identity(last')
              /\ new.responses = EmptyMap
      ]_vars

\* A run was created beside an earlier run that holds responses.
C2_Witness ==
    /\ IsCreate(last)
    /\ last.res.status = 200
    /\ Len(gameRuns) = 2
    /\ gameRuns[1].responses # EmptyMap
    /\ gameRuns[2].id = last.res.body.runId

\* C3: after a submission answered 200 the run's stored responses are
\* exactly the mapping submitted (keys stored before and absent from it are
\* gone).
C3_FullReplace ==
    (IsSubmit(last) /\ last.res.status = 200) =>
        /\ RunExists(gameRuns, last.req.runId)
        /\ RunWithId(gameRuns, last.req.runId).responses = last.req.body

\* A one-entry mapping was accepted and stored.
C3_Witness ==
    /\ IsSubmit(last)
    /\ last.res.status = 200
    /\ DOMAIN last.req.body = {"q2"}
    /\ DOMAIN gameRuns[1].responses = {"q2"}

\* C4: an owner's submission with a key that is no question id, or a value
\* outside the integers 0..3, is answered 400 and leaves the collection as
\* it was.
C4_InvalidRejected ==
    [][ (IsSubmit(last') /\ ByOwner(last', gameRuns) /\ HasBadEntry(last'.req.body))
          => /\ last'.res.status = 400
             /\ gameRuns' = gameRuns
      ]_vars

\* A mapping with a value above 3 was answered 400 while the run holds the
\* responses of an earlier submission.
C4_Witness ==
    /\ IsSubmit(last)
    /\ last.res.status = 400
    /\ "q1" \in DOMAIN last.req.body
    /\ last.req.body["q1"] = IntV(4)
    /\ Len(gameRuns) = 1
    /\ gameRuns[1].responses # EmptyMap

\* C5: the owner's GET results is answered 200 with the run's id, userName
\* and createdAt, and a map over the keys of the stored responses that is
\* true at q exactly when the stored index is the correct answer of q (the
\* empty map for a run without submission); the collection is unchanged.
C5_Results ==
    [][ (IsResults(last') /\ ByOwner(last', gameRuns)) =>
          LET run == RunWithId(gameRuns, last'.req.runId)
              body == last'.res.body
          IN  /\ gameRuns' = gameRuns
              /\ last'.res.status = 200
              /\ body.id = run.id
              /\ body.userName = run.userName
              /\ body.createdAt = run.createdAt
              /\ DOMAIN body.responses = DOMAIN run.responses
              /\ \A q \in DOMAIN run.responses :
                    body.responses[q] = (run.responses[q] = IntV(CorrectAnswerOf(q)))
      ]_vars

\* Results with one answer right and one wrong.
C5_Witness ==
    /\ IsResults(last)
    /\ last.res.status = 200
    /\ DOMAIN last.res.body.responses = {"q1", "q2"}
    /\ last.res.body.responses["q1"]
    /\ ~last.res.body.responses["q2"]

\* The supplied name is a stored user's, exactly, and the supplied password
\* is the one that user's stored hash was made from.
CredentialsMatch(x) ==
    /\ x.req.authorization.scheme = "Basic"
    /\ \E i \in DOMAIN users :
          /\ users[i].userName = x.req.authorization.userName
          /\ users[i].password = BcryptHash(x.req.authorization.password)

\* C6: POST /authenticate is answered 200 with a token exactly when the
\* supplied name is a stored user's and the password matches that user's
\* hash, and the identity the token verifier rebuilds from the token is the
\* supplied name; a wrong password and an unknown name get the same bare 401;
\* no step of an authentication changes the stored runs.
C6_Authenticate ==
    [][ /\ gameRuns' = gameRuns
        /\ (IsAuthenticate(last') /\ last' # last) =>
              IF CredentialsMatch(last')
              THEN /\ last'.res.status = 200
                   /\ last'.res.body.kind = "token"
                   /\ JwtStrategy(Bearer(last'.res.body.token))
                        = [userName |-> last'.req.authorization.userName,
                           authenticated |-> TRUE]
              ELSE last'.res = SendStatus(401)
      ]_vars

\* Max was given a token while another authentication was suspended.
C6_Witness ==
    /\ IsAuthenticate(last)
    /\ last.res.status = 200
    /\ last.req.authorization.userName = "Max"
    /\ pending # {}

\* C7 as stated: an owner's submission is answered 400 exactly when some key
\* is no question id or some value is no integer in 0..3; every other
\* mapping, from zero entries up, is answered 200 and stored.
C7_Original ==
    (IsSubmit(last) /\ ByOwner(last, gameRuns)) =>
        IF HasBadEntry(last.req.body)
        THEN last.res.status = 400
        ELSE /\ last.res.status = 200
             /\ RunWithId(gameRuns, last.req.runId).responses = last.req.body

\* C7, amended: an owner's submission is answered 400 exactly when the
\* mapping has no entry, or some key is no question id, or some value is no
\* integer in 0..3; every other mapping, from one entry up to one per
\* question, is answered 200 and stored.
C7_Validation ==
    (IsSubmit(last) /\ ByOwner(last, gameRuns)) =>
        IF last.req.body = EmptyMap \/ HasBadEntry(last.req.body)
        THEN last.res.status = 400
        ELSE /\ last.res.status = 200
             /\ RunWithId(gameRuns, last.req.runId).responses = last.req.body

\* The mapping without entries was answered 400.
C7_Witness ==
    /\ IsSubmit(last)
    /\ ByOwner(last, gameRuns)
    /\ last.req.body = EmptyMap
    /\ last.res.status = 400

\* C8: when a stored response has a key that is no question of the catalog,
\* the owner's GET results is answered 200 and reports false for that key.
C8_UnknownKeyIsFalse ==
    (/\ IsResults(last)
     /\ ByOwner(last, gameRuns)
     /\ \E q \in DOMAIN RunWithId(gameRuns, last.req.runId).responses :
            q \notin questionIds)
    => /\ last.res.status = 200
       /\ \A q \in DOMAIN RunWithId(gameRuns, last.req.runId).responses :
            q \notin questionIds => last.res.body.responses[q] = FALSE

\* C9: in every step, whatever request it completes, each stored run stays
\* at its place with its id, userName and createdAt, and its responses
\* change only by that step being a submission to this run, by its owner,
\* answered 200, to the mapping submitted; a new run starts empty.
C9_RunsKept ==
    [][ /\ Len(gameRuns') >= Len(gameRuns)
        /\ \A i \in 1..Len(gameRuns) :
              /\ gameRuns'[i].id = gameRuns[i].id
              /\ gameRuns'[i].userName = gameRuns[i].userName
              /\ gameRuns'[i].createdAt = gameRuns[i].createdAt
              /\ gameRuns'[i].responses # gameRuns[i].responses =>
                    /\ IsSubmit(last')
                    /\ last'.res.status = 200
                    /\ last'.req.runId = gameRuns[i].id
                    /\ Identity(last') = gameRuns[i].userName
                    /\ gameRuns'[i].responses = last'.req.body
        /\ \A i \in (Len(gameRuns) + 1)..Len(gameRuns') :
              gameRuns'[i].responses = EmptyMap
      ]_vars

\* A submission to the second run was accepted while the first run, of
\* another user, keeps other responses.
C9_Witness ==
    /\ Len(gameRuns) = 2
    /\ IsSubmit(last)
    /\ last.res.status = 200
    /\ last.req.runId = gameRuns[2].id
    /\ gameRuns[1].userName # gameRuns[2].userName
    /\ gameRuns[1].responses # EmptyMap
    /\ gameRuns[1].responses # gameRuns[2].responses

\* C10: from the empty collection on, every stored run's responses have only
\* question ids as keys and only integers in 0..3 as values.
C10_StoredResponsesValid ==
    \A i \in DOMAIN gameRuns :
        /\ DOMAIN gameRuns[i].responses \subseteq questionIds
        /\ \A q \in DOMAIN gameRuns[i].responses :
              gameRuns[i].responses[q] \in AnswerIndexes

\* A run holds an answer to every question, at both ends of the range.
C10_Witness ==
    /\ Len(gameRuns) = 1
    /\ DOMAIN gameRuns[1].responses = questionIds
    /\ gameRuns[1].responses["q1"] = IntV(0)
    /\ gameRuns[1].responses["q2"] = IntV(3)

====
